---- MODULE Spec2Model ----
(***************************************************************************)
(* ViewerDotStar: the format loader (dotstar/core/file_loader.py), the     *)
(* main window's threaded load (dotstar/core/main_window.py) and the data  *)
(* inspector: tree builder, path resolution, data tab with its navigation  *)
(* stack and display cache (dotstar/core/data_inspector.py).               *)
(*                                                                         *)
(* Python strings are sequences of one-character strings, so that          *)
(* str.split, slicing and int() are computed the way the code computes     *)
(* them.  Python objects are referred to by handles (Ref): the load that   *)
(* produced the root object and the access steps from that root.           *)
(***************************************************************************)
EXTENDS Integers, Sequences, FiniteSets, TLC

(***************************************************************************)
(* Strings                                                                 *)
(***************************************************************************)
Digits == <<"0", "1", "2", "3", "4", "5", "6", "7", "8", "9">>

RECURSIVE IntToStr(_)
\* str(n) of a non-negative int
IntToStr(n) ==
    IF n < 10 THEN <<Digits[n + 1]>>
    ELSE IntToStr(n \div 10) \o <<Digits[(n % 10) + 1]>>

IsDigit(c) == \E d \in 1..10 : Digits[d] = c

DigitVal(c) == (CHOOSE d \in 1..10 : Digits[d] = c) - 1

\* int(s) succeeds (plain decimal digits; the paths of the model hold no
\* sign, blank or underscore)
IsInt(s) == Len(s) > 0 /\ \A i \in 1..Len(s) : IsDigit(s[i])

RECURSIVE ParseInt(_)
ParseInt(s) ==
    IF Len(s) = 0 THEN 0
    ELSE 10 * ParseInt(SubSeq(s, 1, Len(s) - 1)) + DigitVal(s[Len(s)])

Contains(s, c) == \E i \in 1..Len(s) : s[i] = c

IndexOf(s, c) == CHOOSE i \in 1..Len(s) : s[i] = c /\ \A j \in 1..(i - 1) : s[j] # c

RECURSIVE Split(_, _)
\* s.split(c) for a one-character separator
Split(s, c) ==
    IF ~Contains(s, c) THEN <<s>>
    ELSE LET i == IndexOf(s, c)
         IN  <<SubSeq(s, 1, i - 1)>> \o Split(SubSeq(s, i + 1, Len(s)), c)

\* s[:n]
Prefix(s, n) == IF Len(s) > n THEN SubSeq(s, 1, n) ELSE s

RECURSIVE Join(_, _)
\* sep.join(parts)
Join(parts, sep) ==
    IF Len(parts) = 0 THEN <<>>
    ELSE IF Len(parts) = 1 THEN parts[1]
    ELSE LET half == Len(parts) \div 2
         IN  Join(SubSeq(parts, 1, half), sep) \o sep
                \o Join(SubSeq(parts, half + 1, Len(parts)), sep)

(***************************************************************************)
(* Values: what a decoder returns.  t is type(value).__name__.             *)
(***************************************************************************)
PyNone == [t |-> "NoneType", n |-> 0, s |-> <<>>, keys |-> <<>>, items |-> <<>>]
PyInt(i) == [t |-> "int", n |-> i, s |-> <<>>, keys |-> <<>>, items |-> <<>>]
PyStr(cs) == [t |-> "str", n |-> 0, s |-> cs, keys |-> <<>>, items |-> <<>>]
PyList(xs) == [t |-> "list", n |-> 0, s |-> <<>>, keys |-> <<>>, items |-> xs]
\* a dict in insertion order: ks[i] is the key (a str or an int) of vs[i]
PyDict(ks, vs) == [t |-> "dict", n |-> 0, s |-> <<>>, keys |-> ks, items |-> vs]
\* an unpickled object without public attributes whose __str__/__repr__ raise
PyFaulty == [t |-> "Faulty", n |-> 0, s |-> <<"b", "o", "o", "m">>, keys |-> <<>>, items |-> <<>>]

\* a numpy.ndarray of ndim dimensions: rows[i] is data[i], an ndarray of
\* ndim - 1 dimensions, or for ndim = 1 an element: a numpy.int64, or any
\* object when the dtype is object
PyArray(ndim, rows) == [t |-> "ndarray", n |-> ndim, s |-> <<>>, keys |-> <<>>, items |-> rows]
\* a numpy.int64 scalar: it has the shape ()
PyNp(i) == [t |-> "int64", n |-> i, s |-> <<>>, keys |-> <<>>, items |-> <<>>]

RECURSIVE ShapeTo(_, _)
ShapeTo(v, d) == IF d = 0 THEN <<>> ELSE <<Len(v.items)>> \o ShapeTo(v.items[1], d - 1)

\* data.shape of a (non-empty) array, () of a numpy scalar
Shape(v) == IF v.t = "ndarray" THEN ShapeTo(v, v.n) ELSE <<>>

\* hasattr(v, 'shape')
HasShape(v) == v.t \in {"ndarray", "int64"}

\* hasattr(value, 'shape') and len(value.shape) > 0
IsArray(v) == v.t = "ndarray"

RECURSIVE Product(_)
Product(shape) == IF Len(shape) = 0 THEN 1 ELSE Head(shape) * Product(Tail(shape))

\* data.size
Size(v) == Product(Shape(v))

RECURSIVE Leaf(_, _)
\* the first element of an array
Leaf(v, d) == IF d = 0 THEN v ELSE Leaf(v.items[1], d - 1)

\* str(data.dtype)
Dtype(v) ==
    IF v.t = "int64" \/ Leaf(v, v.n).t = "int64" THEN <<"i", "n", "t", "6", "4">>
    ELSE <<"o", "b", "j", "e", "c", "t">>

\* str(shape) of a tuple of ints: (5,), (5, 5), ()
ShapeStr(shape) ==
    IF Len(shape) = 1 THEN <<"(">> \o IntToStr(shape[1]) \o <<",", ")">>
    ELSE <<"(">> \o Join([i \in 1..Len(shape) |-> IntToStr(shape[i])], <<",", " ">>) \o <<")">>

\* n copies of the character c
Repeat(c, n) == [i \in 1..n |-> c]

IsContainer(v) == v.t \in {"dict", "list"}

RECURSIVE StrRaises(_)
\* str(v) / repr(v) raises: v or an element of v has a raising __repr__
StrRaises(v) ==
    \/ v.t = "Faulty"
    \/ \E i \in 1..Len(v.items) : StrRaises(v.items[i])

RECURSIVE Repr(_)
RECURSIVE NpBody(_, _, _)
\* the bracketed text numpy prints for an array whose lines fit the line
\* width: elements separated by sep (repr() of the elements of an object
\* array), rows by line breaks and the indentation of their depth
NpBody(v, indent, sep) ==
    IF v.n = 1
    THEN <<"[">> \o Join([i \in 1..Len(v.items) |->
                            IF v.items[i].t = "int64" THEN IntToStr(v.items[i].n)
                            ELSE Repr(v.items[i])],
                         sep \o <<" ">>) \o <<"]">>
    ELSE <<"[">> \o Join([i \in 1..Len(v.items) |-> NpBody(v.items[i], indent + 1, sep)],
                         sep \o Repeat("\n", v.n - 1) \o Repeat(" ", indent + 1)) \o <<"]">>

Repr(v) ==
    CASE v.t = "NoneType" -> <<"N", "o", "n", "e">>
      [] v.t = "int" -> IntToStr(v.n)
      [] v.t = "int64" -> IntToStr(v.n)
      [] v.t = "ndarray" ->
            <<"a", "r", "r", "a", "y", "(">> \o NpBody(v, 6, <<",">>)
                \o (IF Dtype(v) = <<"i", "n", "t", "6", "4">> THEN <<>>
                    ELSE <<",", " ", "d", "t", "y", "p", "e", "=">> \o Dtype(v))
                \o <<")">>
      [] v.t = "str" -> <<"'">> \o v.s \o <<"'">>
      [] v.t = "list" ->
            <<"[">> \o Join([i \in 1..Len(v.items) |-> Repr(v.items[i])], <<",", " ">>) \o <<"]">>
      [] v.t = "dict" ->
            <<"{">> \o Join([i \in 1..Len(v.items) |->
                               Repr(v.keys[i]) \o <<":", " ">> \o Repr(v.items[i])],
                            <<",", " ">>) \o <<"}">>
      [] OTHER -> <<>>

\* str(v), defined when ~StrRaises(v)
Str(v) ==
    IF v.t = "str" THEN v.s
    ELSE IF v.t = "ndarray" THEN NpBody(v, 0, <<>>)
    ELSE Repr(v)

RECURSIVE ReprLen(_)
RECURSIVE ReprLenSum(_, _, _)
\* the sum of len(repr()) of the entries lo..hi of a list or dict, a dict
\* entry counted as "key: value"
ReprLenSum(v, lo, hi) ==
    IF lo > hi THEN 0
    ELSE IF lo = hi
    THEN (IF v.t = "dict" THEN ReprLen(v.keys[lo]) + 2 ELSE 0) + ReprLen(v.items[lo])
    ELSE LET mid == (lo + hi) \div 2
         IN  ReprLenSum(v, lo, mid) + ReprLenSum(v, mid + 1, hi)

\* len(repr(v)), computed without building the string
ReprLen(v) ==
    CASE v.t = "NoneType" -> 4
      [] v.t = "int" -> Len(IntToStr(v.n))
      [] v.t = "int64" -> Len(IntToStr(v.n))
      [] v.t = "ndarray" -> Len(Repr(v))
      [] v.t = "str" -> Len(v.s) + 2
      [] v.t \in {"list", "dict"} ->
            2 + ReprLenSum(v, 1, Len(v.items))
              + (IF Len(v.items) > 1 THEN 2 * (Len(v.items) - 1) ELSE 0)
      [] OTHER -> 0

\* len(str(v)) of a dict, list or tuple
StrLen(v) ==
    IF v.t = "str" THEN Len(v.s)
    ELSE IF v.t = "ndarray" THEN Len(Str(v))
    ELSE ReprLen(v)

(***************************************************************************)
(* Documents: the decoded payloads of the files of the model.  Root-level  *)
(* keys are strings (as in every JSON document); nested keys may contain   *)
(* '.' or '[' or be ints (pickle).                                         *)
(***************************************************************************)
\* length of the long list of the documents: its str() is over 100 characters
\* (a navigable table cell) and it is longer than the tree's width limit
LongLen == 28

LongList == PyList([i \in 1..LongLen |-> PyInt(i)])

\* a.json: {"m": {"k": [1, ..., LongLen], "j": null}, "a": [[1, 2], 3], "b": 4}
DocA ==
    PyDict(<<PyStr(<<"m">>), PyStr(<<"a">>), PyStr(<<"b">>)>>,
           <<PyDict(<<PyStr(<<"k">>), PyStr(<<"j">>)>>, <<LongList, PyNone>>),
             PyList(<<PyList(<<PyInt(1), PyInt(2)>>), PyInt(3)>>),
             PyInt(4)>>)

\* b.JSON: [1, ..., LongLen]
DocB == LongList

\* c.pkl: {"f": Faulty(), "d": {1: 6, "x.y": 7, "q[0]": "hi"}}
DocC ==
    PyDict(<<PyStr(<<"f">>), PyStr(<<"d">>)>>,
           <<PyFaulty,
             PyDict(<<PyInt(1), PyStr(<<"x", ".", "y">>), PyStr(<<"q", "[", "0", "]">>)>>,
                    <<PyInt(6), PyInt(7), PyStr(<<"h", "i">>)>>)>>)

\* length of the one-dimensional array: over the 100 elements from which
\* the views truncate
LongArr == 101

\* n1.npy: a one-dimensional int64 array of LongArr elements
DocN1 == PyArray(1, [i \in 1..LongArr |-> PyNp(i % 10)])

\* n2.npy: an int64 array of shape (11, 10)
DocN2 == PyArray(2, [i \in 1..11 |-> PyArray(1, [j \in 1..10 |-> PyNp((i + j) % 10)])])

\* n3.npy: an int64 array of shape (5, 5, 5)
DocN3 ==
    PyArray(3, [i \in 1..5 |->
                  PyArray(2, [j \in 1..5 |->
                                PyArray(1, [k \in 1..5 |-> PyNp((i + j + k) % 10)])])])

\* o.pkl: an object array of shape (2, 2) whose elements are int64 arrays of
\* shape (3,)
DocO ==
    PyArray(2, [i \in 1..2 |->
                  PyArray(1, [j \in 1..2 |->
                                PyArray(1, [k \in 1..3 |-> PyNp((i + j + k) % 10)])])])

\* w.pkl: {"w": {"g": Faulty()}, "z": 1}
DocW ==
    PyDict(<<PyStr(<<"w">>), PyStr(<<"z">>)>>,
           <<PyDict(<<PyStr(<<"g">>)>>, <<PyFaulty>>), PyInt(1)>>)

RECURSIVE Nested(_)
\* the int 1 inside n lists: [[...[1]...]]
Nested(n) == IF n = 0 THEN PyInt(1) ELSE PyList(<<Nested(n - 1)>>)

\* t.pkl: {"deep": [[[[[[1]]]]]], "s0": ["aaa..."], "s1": ["aaa..."]} where
\* str(s0) has 10000 characters and str(s1) has 9999
DocT ==
    PyDict(<<PyStr(<<"d", "e", "e", "p">>), PyStr(<<"s", "0">>), PyStr(<<"s", "1">>)>>,
           <<Nested(6),
             PyList(<<PyStr([i \in 1..9996 |-> "a"])>>),
             PyList(<<PyStr([i \in 1..9995 |-> "a"])>>)>>)

\* h.pkl: {"h": an int64 array of shape (10, 10), "s": one of shape (5,)}
DocH ==
    PyDict(<<PyStr(<<"h">>), PyStr(<<"s">>)>>,
           <<PyArray(2, [i \in 1..10 |-> PyArray(1, [j \in 1..10 |-> PyNp((i + j) % 10)])]),
             PyArray(1, [k \in 1..5 |-> PyNp(k)])>>)

\* m.pkl: {"d": {0: "aa...", ..., 100: "aa..."}, "l": ["aa...", ..., "aa..."]}
\* with 101 entries each, every string of 100 characters
DocM ==
    PyDict(<<PyStr(<<"d">>), PyStr(<<"l">>)>>,
           <<PyDict([i \in 1..LongArr |-> PyInt(i - 1)],
                    [i \in 1..LongArr |-> PyStr([c \in 1..100 |-> "a"])]),
             PyList([i \in 1..LongArr |-> PyStr([c \in 1..100 |-> "a"])])>>)

Docs == <<DocA, DocB, DocC, DocN1, DocN2, DocN3, DocO, DocW, DocT, DocH, DocM>>

(***************************************************************************)
(* Object references.  tid is the load (FileLoadThread) that produced the  *)
(* root object, doc its content, at the item positions from the root.      *)
(* None is one object, whatever produced it.                               *)
(***************************************************************************)
NoneRef == [tid |-> 0, doc |-> 0, at |-> <<>>]

RECURSIVE Walk(_, _)
Walk(v, at) ==
    IF Len(at) = 0 THEN v
    ELSE IF v.t = "str" THEN PyStr(<<v.s[Head(at)]>>)
    ELSE Walk(v.items[Head(at)], Tail(at))

Deref(h) == IF h.doc = 0 THEN PyNone ELSE Walk(Docs[h.doc], h.at)

Norm(h) == IF Deref(h).t = "NoneType" THEN NoneRef ELSE h

\* the i-th item (1-based) of the container or string h refers to
Child(h, i) == Norm([h EXCEPT !.at = Append(@, i)])

IsNone(h) == h = NoneRef

(***************************************************************************)
(* DataTreeWidget.get_data_at_path                                         *)
(***************************************************************************)
\* the outcome of one subscript or attribute access: a reference, or a raise
Raised == [tid |-> -1, doc |-> 0, at |-> <<>>]

\* result[key] for a str key
GetItemStr(h, key) ==
    LET v == Deref(h)
    IN  IF h = Raised THEN Raised
        ELSE IF v.t = "dict" /\ \E i \in 1..Len(v.keys) : v.keys[i].t = "str" /\ v.keys[i].s = key
        THEN Child(h, CHOOSE i \in 1..Len(v.keys) : v.keys[i].t = "str" /\ v.keys[i].s = key)
        ELSE Raised

\* result[index] for an int index >= 0
GetItemInt(h, index) ==
    LET v == Deref(h)
    IN  IF h = Raised THEN Raised
        ELSE IF v.t = "dict" /\ \E i \in 1..Len(v.keys) : v.keys[i].t = "int" /\ v.keys[i].n = index
        THEN Child(h, CHOOSE i \in 1..Len(v.keys) : v.keys[i].t = "int" /\ v.keys[i].n = index)
        ELSE IF v.t \in {"list", "ndarray"} /\ index < Len(v.items) THEN Child(h, index + 1)
        ELSE IF v.t = "str" /\ index < Len(v.s) THEN Child(h, index + 1)
        ELSE Raised

\* getattr(result, part): no value of the model has a public attribute of
\* the name of a path part
GetAttr(h, part) == Raised

\* the body of the loop over path.split('.')
ResolvePart(h, part) ==
    IF h = Raised THEN Raised
    ELSE IF Contains(part, "[") /\ Contains(part, "]")
    THEN LET key == Split(part, "[")[1]
             index_str == Split(Split(part, "[")[2], "]")[1]
         IN  IF ~IsInt(index_str) THEN Raised
             ELSE GetItemInt(IF Len(key) > 0 THEN GetItemStr(h, key) ELSE h,
                             ParseInt(index_str))
    ELSE IF Deref(h).t = "dict" THEN GetItemStr(h, part)
    ELSE GetAttr(h, part)

RECURSIVE ResolveParts(_, _)
ResolveParts(h, parts) ==
    IF Len(parts) = 0 THEN h
    ELSE ResolveParts(ResolvePart(h, Head(parts)), Tail(parts))

\* get_data_at_path(path) on a tree whose data is `data`
get_data_at_path(data, path) ==
    IF Len(path) = 0 \/ IsNone(data) THEN data
    ELSE LET r == ResolveParts(data, Split(path, "."))
         IN  IF r = Raised THEN NoneRef ELSE r

(***************************************************************************)
(* DataTreeWidget: the tree of QTreeWidgetItems                            *)
(***************************************************************************)
\* data[:10] and len(data) > 10 in _build_tree_recursive
TreeWidth == 10
\* max_depth of _build_tree_recursive
MaxDepth == 5
\* len(str(value)) < 10000
SizeThreshold == 10000

Min(a, b) == IF a < b THEN a ELSE b

\* an item: its four columns, its UserRole path (<<>> when none is set) and
\* its child items in order
Item(label, v_type, size, desc, path, children) ==
    [label |-> label, type |-> v_type, size |-> size, desc |-> desc,
     path |-> path, children |-> children]

_get_size_description(v) ==
    IF HasShape(v) THEN ShapeStr(Shape(v))
    ELSE IF v.t \in {"str", "list", "dict"}
    THEN <<"L", "e", "n", "g", "t", "h", ":", " ">>
            \o IntToStr(IF v.t = "str" THEN Len(v.s) ELSE Len(v.items))
    ELSE <<>>

_get_description(v) ==
    CASE HasShape(v) -> Dtype(v)
      [] v.t = "int" -> Prefix(Str(v), 50)
      [] v.t = "str" ->
            IF Len(v.s) > 30
            THEN <<"\"">> \o Prefix(v.s, 30) \o <<".", ".", ".", "\"">>
            ELSE <<"\"">> \o v.s \o <<"\"">>
      [] v.t = "list" -> IntToStr(Len(v.items)) \o <<" ", "i", "t", "e", "m", "s">>
      [] v.t = "dict" -> IntToStr(Len(v.items)) \o <<" ", "k", "e", "y", "s">>
      [] OTHER -> <<>>

MoreItemsLabel(k) ==
    <<".", ".", ".", " ", "(">> \o IntToStr(k)
        \o <<" ", "m", "o", "r", "e", " ", "i", "t", "e", "m", "s", ")">>

\* current_path of the child at position i (1-based) of a dict or list
ChildPath(v, path, i) ==
    IF v.t = "dict"
    THEN IF Len(path) > 0 THEN path \o <<".">> \o Str(v.keys[i]) ELSE Str(v.keys[i])
    ELSE path \o <<"[">> \o IntToStr(i - 1) \o <<"]">>

ChildLabel(v, i) ==
    IF v.t = "dict" THEN Str(v.keys[i])
    ELSE <<"[">> \o IntToStr(i - 1) \o <<"]">>

NoItems == [kids |-> <<>>, exc |-> FALSE]

RECURSIVE BuildFrom(_, _, _, _, _)
RECURSIVE _build_tree_recursive(_, _, _)

\* the loop body of _build_tree_recursive for the items i..limit of v: the
\* child items added, and whether an exception (a raising str(value)) ended
\* the build
BuildFrom(v, path, max_depth, i, limit) ==
    IF i > limit THEN NoItems
    ELSE LET value == v.items[i]
             current_path == ChildPath(v, path, i)
             expand == IsContainer(value)
             sub == IF expand /\ ~StrRaises(value) /\ StrLen(value) < SizeThreshold
                    THEN _build_tree_recursive(value, current_path, max_depth - 1)
                    ELSE NoItems
             item == Item(ChildLabel(v, i), value.t, _get_size_description(value),
                          _get_description(value), current_path, sub.kids)
         IN  IF (expand /\ StrRaises(value)) \/ sub.exc
             THEN [kids |-> <<item>>, exc |-> TRUE]
             ELSE LET rest == BuildFrom(v, path, max_depth, i + 1, limit)
                  IN  [kids |-> <<item>> \o rest.kids, exc |-> rest.exc]

\* data[:11]: the slice one item too long
TreeLimit_OffByOne(n) == Min(n, TreeWidth + 1)

\* the number of items of data[:10]
TreeLimit(n) == Min(n, TreeWidth)

\* _build_tree_recursive without the test of max_depth
_build_tree_recursive_NoDepth(v, path, max_depth) ==
    IF v.t = "dict" THEN BuildFrom(v, path, max_depth, 1, Len(v.items))
    ELSE IF v.t = "list"
    THEN LET r == BuildFrom(v, path, max_depth, 1, Min(Len(v.items), TreeWidth))
         IN  IF r.exc \/ Len(v.items) <= TreeWidth THEN r
             ELSE [r EXCEPT !.kids = Append(@, Item(MoreItemsLabel(Len(v.items) - TreeWidth),
                                                     "", <<>>, <<>>, <<>>, <<>>))]
    ELSE NoItems

_build_tree_recursive(v, path, max_depth) ==
    IF max_depth <= 0 THEN NoItems
    ELSE IF v.t = "dict" THEN BuildFrom(v, path, max_depth, 1, Len(v.items))
    ELSE IF v.t = "list"
    THEN LET r == BuildFrom(v, path, max_depth, 1, TreeLimit(Len(v.items)))
         IN  IF r.exc \/ Len(v.items) <= TreeWidth THEN r
             ELSE [r EXCEPT !.kids = Append(@, Item(MoreItemsLabel(Len(v.items) - TreeWidth),
                                                     "", <<>>, <<>>, <<>>, <<>>))]
    ELSE NoItems  \* an object: no public attribute in the model

RootLabel == <<"D", "a", "t", "a", " ", "R", "o", "o", "t", " ", "N", "o", "d", "e">>

\* DataTreeWidget.set_data: the root item and what was built below it
BuildTree(v, file_format) ==
    LET r == _build_tree_recursive(v, <<>>, MaxDepth)
    IN  [root |-> Item(RootLabel, v.t, _get_size_description(v), file_format, <<>>, r.kids),
         exc |-> r.exc]

RECURSIVE ItemsBelow(_)
\* every item of the subtree of `item`, itself included
ItemsBelow(item) ==
    {item} \cup UNION {ItemsBelow(item.children[i]) : i \in 1..Len(item.children)}

(***************************************************************************)
(* Files and FileLoader                                                    *)
(***************************************************************************)
\* the file paths of the model
PathA == <<"a", ".", "j", "s", "o", "n">>
PathB == <<"b", ".", "J", "S", "O", "N">>
PathC == <<"c", ".", "p", "k", "l">>
PathBad == <<"x", ".", "j", "s", "o", "n">>
PathTxt == <<"t", ".", "t", "x", "t">>
PathGone == <<"g", ".", "j", "s", "o", "n">>
PathN1 == <<"n", "1", ".", "n", "p", "y">>
PathN2 == <<"n", "2", ".", "n", "p", "y">>
PathN3 == <<"n", "3", ".", "n", "p", "y">>
PathO == <<"o", ".", "p", "k", "l">>
PathMat == <<"m", ".", "m", "a", "t">>
PathW == <<"w", ".", "p", "k", "l">>
PathT == <<"t", ".", "p", "k", "l">>
PathH == <<"h", ".", "p", "k", "l">>
PathM == <<"m", ".", "p", "k", "l">>

FilePaths ==
    {PathA, PathB, PathC, PathBad, PathTxt, PathGone, PathN1, PathN2, PathN3, PathO, PathMat}

\* what is on disk under a path while it exists: the number of the document
\* it decodes to, or 0 for a corrupt file
Content(p) ==
    CASE p = PathA -> 1
      [] p = PathB -> 2
      [] p = PathC -> 3
      [] p = PathN1 -> 4
      [] p = PathN2 -> 5
      [] p = PathN3 -> 6
      [] p = PathO -> 7
      [] p = PathW -> 8
      [] p = PathT -> 9
      [] p = PathH -> 10
      [] p = PathM -> 11
      [] p = PathMat -> 1
      [] OTHER -> 0

\* os.path.getsize(file_path)
FileSize(p) == 64 * Len(p) + Content(p)

\* the paths that exist when the program starts
InitialFiles == (FilePaths \cup {PathW, PathT, PathH, PathM}) \ {PathGone}

Lower(c) ==
    CASE c = "J" -> "j"
      [] c = "S" -> "s"
      [] c = "O" -> "o"
      [] c = "N" -> "n"
      [] OTHER -> c

\* Path(file_path).suffix.lower(): from the last '.' of the name on
Suffix(p) ==
    IF ~Contains(p, ".") THEN <<>>
    ELSE LET i == CHOOSE k \in 1..Len(p) : p[k] = "." /\ \A j \in (k + 1)..Len(p) : p[j] # "."
         IN  [k \in 1..(Len(p) - i + 1) |-> Lower(p[i + k - 1])]

\* SUPPORTED_FORMATS: extension -> description
SUPPORTED_FORMATS ==
    {<<<<".", "j", "s", "o", "n">>, "JSON format">>,
     <<<<".", "p", "k", "l">>, "Pickle format">>,
     <<<<".", "p", "i", "c", "k", "l", "e">>, "Pickle format">>,
     <<<<".", "n", "p", "y">>, "NumPy array">>,
     <<<<".", "n", "p", "z">>, "NumPy compressed array">>,
     <<<<".", "m", "a", "t">>, "MATLAB data">>,
     <<<<".", "h", "5">>, "HDF5 format">>,
     <<<<".", "h", "d", "f", "5">>, "HDF5 format">>,
     <<<<".", "n", "c">>, "NetCDF format">>,
     <<<<".", "c", "s", "v">>, "CSV table">>,
     <<<<".", "t", "s", "v">>, "TSV table">>,
     <<<<".", "p", "a", "r", "q", "u", "e", "t">>, "Parquet format">>,
     <<<<".", "y", "a", "m", "l">>, "YAML format">>,
     <<<<".", "y", "m", "l">>, "YAML format">>,
     <<<<".", "t", "o", "m", "l">>, "TOML format">>,
     <<<<".", "p", "l", "y">>, "PLY point cloud">>,
     <<<<".", "o", "b", "j">>, "OBJ model">>,
     <<<<".", "s", "t", "l">>, "STL model">>,
     <<<<".", "o", "f", "f">>, "OFF model">>,
     <<<<".", "x", "y", "z">>, "XYZ point cloud">>,
     <<<<".", "p", "t">>, "PyTorch model">>,
     <<<<".", "p", "t", "h">>, "PyTorch checkpoint">>,
     <<<<".", "s", "a", "f", "e", "t", "e", "n", "s", "o", "r", "s">>, "SafeTensors format">>,
     <<<<".", "t", "i", "f", "f">>, "TIFF image">>,
     <<<<".", "t", "i", "f">>, "TIFF image">>,
     <<<<".", "f", "i", "t", "s">>, "FITS astronomical image">>}

is_supported(file_path) == \E e \in SUPPORTED_FORMATS : e[1] = Suffix(file_path)

get_format_description(file_path) ==
    IF is_supported(file_path)
    THEN (CHOOSE e \in SUPPORTED_FORMATS : e[1] = Suffix(file_path))[2]
    ELSE "Unknown format"

\* the dispatch without the extension .off
Decoder_NoOff(ext) ==
    CASE ext = <<".", "j", "s", "o", "n">> -> "_load_json"
      [] ext \in {<<".", "p", "k", "l">>, <<".", "p", "i", "c", "k", "l", "e">>} -> "_load_pickle"
      [] ext = <<".", "n", "p", "y">> -> "_load_npy"
      [] ext = <<".", "n", "p", "z">> -> "_load_npz"
      [] ext = <<".", "m", "a", "t">> -> "_load_mat"
      [] ext \in {<<".", "h", "5">>, <<".", "h", "d", "f", "5">>} -> "_load_hdf5"
      [] ext = <<".", "n", "c">> -> "_load_netcdf"
      [] ext = <<".", "c", "s", "v">> -> "_load_csv"
      [] ext = <<".", "t", "s", "v">> -> "_load_tsv"
      [] ext = <<".", "p", "a", "r", "q", "u", "e", "t">> -> "_load_parquet"
      [] ext \in {<<".", "y", "a", "m", "l">>, <<".", "y", "m", "l">>} -> "_load_yaml"
      [] ext = <<".", "t", "o", "m", "l">> -> "_load_toml"
      [] ext \in {<<".", "p", "t">>, <<".", "p", "t", "h">>} -> "_load_pytorch"
      [] ext = <<".", "s", "a", "f", "e", "t", "e", "n", "s", "o", "r", "s">> -> "_load_safetensors"
      [] ext \in {<<".", "p", "l", "y">>, <<".", "o", "b", "j">>, <<".", "s", "t", "l">>,
                  <<".", "x", "y", "z">>} -> "_load_3d_data"
      [] ext \in {<<".", "t", "i", "f", "f">>, <<".", "t", "i", "f">>} -> "_load_tiff"
      [] ext = <<".", "f", "i", "t", "s">> -> "_load_fits"
      [] OTHER -> ""

\* the decoding routine load_file selects for an extension, "" for the
\* else branch (Unimplemented format)
Decoder(ext) ==
    CASE ext = <<".", "j", "s", "o", "n">> -> "_load_json"
      [] ext \in {<<".", "p", "k", "l">>, <<".", "p", "i", "c", "k", "l", "e">>} -> "_load_pickle"
      [] ext = <<".", "n", "p", "y">> -> "_load_npy"
      [] ext = <<".", "n", "p", "z">> -> "_load_npz"
      [] ext = <<".", "m", "a", "t">> -> "_load_mat"
      [] ext \in {<<".", "h", "5">>, <<".", "h", "d", "f", "5">>} -> "_load_hdf5"
      [] ext = <<".", "n", "c">> -> "_load_netcdf"
      [] ext = <<".", "c", "s", "v">> -> "_load_csv"
      [] ext = <<".", "t", "s", "v">> -> "_load_tsv"
      [] ext = <<".", "p", "a", "r", "q", "u", "e", "t">> -> "_load_parquet"
      [] ext \in {<<".", "y", "a", "m", "l">>, <<".", "y", "m", "l">>} -> "_load_yaml"
      [] ext = <<".", "t", "o", "m", "l">> -> "_load_toml"
      [] ext \in {<<".", "p", "t">>, <<".", "p", "t", "h">>} -> "_load_pytorch"
      [] ext = <<".", "s", "a", "f", "e", "t", "e", "n", "s", "o", "r", "s">> -> "_load_safetensors"
      [] ext \in {<<".", "p", "l", "y">>, <<".", "o", "b", "j">>, <<".", "s", "t", "l">>,
                  <<".", "o", "f", "f">>, <<".", "x", "y", "z">>} -> "_load_3d_data"
      [] ext \in {<<".", "t", "i", "f", "f">>, <<".", "t", "i", "f">>} -> "_load_tiff"
      [] ext = <<".", "f", "i", "t", "s">> -> "_load_fits"
      [] OTHER -> ""

\* metadata['type'] set by a decoding routine
DecodedType(decoder) ==
    CASE decoder = "_load_json" -> "json"
      [] decoder = "_load_pickle" -> "pickle"
      [] decoder = "_load_npy" -> "numpy_array"
      [] decoder = "_load_npz" -> "numpy_archive"
      [] decoder = "_load_mat" -> "matlab"
      [] decoder = "_load_hdf5" -> "hdf5"
      [] decoder = "_load_netcdf" -> "netcdf"
      [] decoder = "_load_csv" -> "csv"
      [] decoder = "_load_tsv" -> "tsv"
      [] decoder = "_load_parquet" -> "parquet"
      [] decoder = "_load_yaml" -> "yaml"
      [] decoder = "_load_toml" -> "toml"
      [] decoder = "_load_pytorch" -> "pytorch"
      [] decoder = "_load_safetensors" -> "safetensors"
      [] decoder = "_load_3d_data" -> "3d_data"
      [] decoder = "_load_tiff" -> "tiff_image"
      [] decoder = "_load_fits" -> "fits_image"
      [] OTHER -> ""

\* the optional module a decoding routine imports when it runs, "" for the
\* routines that need none
Requires(decoder) ==
    CASE decoder = "_load_mat" -> "scipy"
      [] decoder = "_load_hdf5" -> "h5py"
      [] decoder = "_load_netcdf" -> "netCDF4"
      [] decoder = "_load_pytorch" -> "torch"
      [] decoder = "_load_safetensors" -> "safetensors"
      [] decoder = "_load_3d_data" -> "open3d"
      [] decoder = "_load_tiff" -> "PIL"
      [] decoder = "_load_fits" -> "astropy"
      [] OTHER -> ""

\* the optional modules installed: an installation without any of them
Installed == {}

\* the routine ends in `except ImportError: raise RuntimeError(...)`
MissingDependency(decoder) == Requires(decoder) # "" /\ Requires(decoder) \notin Installed

NoMetadata ==
    [type |-> "", file_path |-> <<>>, file_name |-> <<>>, file_size |-> 0, file_format |-> "",
     file_extension |-> <<>>]

\* what load_file ends in: the exception type raised, or "ok" with the
\* document returned and its metadata
Outcome(kind, doc, metadata) == [kind |-> kind, doc |-> doc, metadata |-> metadata]

\* load_file with the two early checks in the other order
LoaderLoadFile_SupportFirst(file_path, disk) ==
    IF ~is_supported(file_path) THEN Outcome("ValueError", 0, NoMetadata)
    ELSE IF file_path \notin disk THEN Outcome("FileNotFoundError", 0, NoMetadata)
    ELSE IF \/ Decoder(Suffix(file_path)) = ""
            \/ MissingDependency(Decoder(Suffix(file_path)))
            \/ Content(file_path) = 0
    THEN Outcome("RuntimeError", 0, NoMetadata)
    ELSE Outcome("ok", Content(file_path),
                 [type |-> DecodedType(Decoder(Suffix(file_path))), file_path |-> file_path,
                  file_name |-> file_path, file_size |-> FileSize(file_path),
                  file_format |-> get_format_description(file_path),
                  file_extension |-> Suffix(file_path)])

\* FileLoader.load_file(file_path) with the set `disk` of existing paths
LoaderLoadFile(file_path, disk) ==
    IF file_path \notin disk THEN Outcome("FileNotFoundError", 0, NoMetadata)
    ELSE IF ~is_supported(file_path) THEN Outcome("ValueError", 0, NoMetadata)
    ELSE LET ext == Suffix(file_path)
             decoder == Decoder(ext)
         IN  IF decoder = "" \/ MissingDependency(decoder) \/ Content(file_path) = 0
             THEN Outcome("RuntimeError", 0, NoMetadata)
             ELSE Outcome("ok", Content(file_path),
                          [type |-> DecodedType(decoder), file_path |-> file_path,
                           file_name |-> file_path, file_size |-> FileSize(file_path),
                           file_format |-> get_format_description(file_path),
                           file_extension |-> ext])

(***************************************************************************)
(* DataTab: the formatters of the three views                              *)
(***************************************************************************)
\* value_str[:100] and len(str(value)) > 100 of a cell
CellChars == 100
\* max_elements of _format_data_as_text_safe
MaxElements == 100
\* data[:10] of the list preview
PreviewItems == 10
\* max_chars of _get_raw_text_safe, and the cut of str(data) in the text view
MaxChars == 10000
\* min(len(data), 1000) rows of _populate_list_table
MaxListRows == 1000
\* size > 100 of _get_raw_text_safe
RawElements == 100
\* min(len(data), 100) columns of the table of a one-dimensional array
MaxArrayCols == 100
\* min(data.shape[0], 500) rows of the table of a two-dimensional array
MaxRows2D == 500
\* min(data.shape[1], 50) columns of the table of a two-dimensional array
MaxCols2D == 50
\* min(data.shape[0], 100) rows of the table of a higher-dimensional array
MaxRowsND == 100

\* the characters of a type name
TypeChars(t) ==
    CASE t = "dict" -> <<"d", "i", "c", "t">>
      [] t = "list" -> <<"l", "i", "s", "t">>
      [] t = "int" -> <<"i", "n", "t">>
      [] t = "str" -> <<"s", "t", "r">>
      [] t = "NoneType" -> <<"N", "o", "n", "e", "T", "y", "p", "e">>
      [] t = "ndarray" -> <<"n", "u", "m", "p", "y", ".", "n", "d", "a", "r", "r", "a", "y">>
      [] t = "int64" -> <<"n", "u", "m", "p", "y", ".", "i", "n", "t", "6", "4">>
      [] OTHER -> <<"F", "a", "u", "l", "t", "y">>

\* str(type(v)): "<class 'dict'>"
TypeRepr(v) == <<"<", "c", "l", "a", "s", "s", " ", "'">> \o TypeChars(v.t) \o <<"'", ">">>

RECURSIVE RaiseMsg(_)
\* str(e) of the exception a raising str(v) ends in
RaiseMsg(v) ==
    IF v.t = "Faulty" THEN v.s
    ELSE RaiseMsg(v.items[CHOOSE i \in 1..Len(v.items) :
                            StrRaises(v.items[i]) /\ \A j \in 1..(i - 1) : ~StrRaises(v.items[j])])

\* the except branch of _format_data_as_text_safe: e raised by str(bad)
TextPlaceholder(v, bad) == <<"U", "n", "a", "b", "l", "e", " ", "t", "o", " ", "f", "o", "r", "m", "a", "t", " ", "d", "a", "t", "a", ":", " ">> \o RaiseMsg(bad) \o <<"\n", "D", "a", "t", "a", " ", "t", "y", "p", "e", ":", " ">> \o TypeRepr(v)

RawPlaceholder(v) == <<"U", "n", "a", "b", "l", "e", " ", "t", "o", " ", "d", "i", "s", "p", "l", "a", "y", " ", "r", "a", "w", " ", "d", "a", "t", "a", ":", " ">> \o RaiseMsg(v) \o <<"\n", "D", "a", "t", "a", " ", "t", "y", "p", "e", ":", " ">> \o TypeRepr(v)

Truncated == <<"\n", ".", ".", ".", " ", "(", "t", "r", "u", "n", "c", "a", "t", "e", "d", " ", "f", "o", "r", " ", "p", "e", "r", "f", "o", "r", "m", "a", "n", "c", "e", ")">>

Cut(text, n) == IF Len(text) > n THEN SubSeq(text, 1, n) \o <<".", ".", ".">> ELSE text

\* the line "key: value_str" of the dict branch
DictLine(v, i) == Str(v.keys[i]) \o <<":", " ">> \o Cut(Str(v.items[i]), CellChars)

\* a slice that keeps one element more along every axis
Corner_OneMore(v, rows, cols) ==
    IF v.n = 1 THEN PyArray(1, SubSeq(v.items, 1, Min(rows + 1, Len(v.items))))
    ELSE PyArray(2, [i \in 1..Min(rows + 1, Len(v.items)) |->
                       PyArray(1, SubSeq(v.items[i].items, 1, Min(cols + 1, Len(v.items[i].items))))])

\* data[:rows, :cols] of a two-dimensional array, data[:rows] of a
\* one-dimensional one
Corner(v, rows, cols) ==
    IF v.n = 1 THEN PyArray(1, SubSeq(v.items, 1, Min(rows, Len(v.items))))
    ELSE PyArray(2, [i \in 1..Min(rows, Len(v.items)) |->
                       PyArray(1, SubSeq(v.items[i].items, 1, Min(cols, Len(v.items[i].items))))])

RECURSIVE FlatItem(_, _, _)
\* data.flat[k] of an array of d dimensions (C order, k from 0)
FlatItem(v, d, k) ==
    IF d = 0 THEN v
    ELSE LET stride == Product(Tail(ShapeTo(v, d)))
         IN  FlatItem(v.items[(k \div stride) + 1], d - 1, k % stride)

\* data.flat[:n]
FlatPrefix(v, n) == [k \in 1..Min(n, Size(v)) |-> FlatItem(v, v.n, k - 1)]

ArrayShapeHead(v) == <<"A", "r", "r", "a", "y", " ", "s", "h", "a", "p", "e", " ">> \o ShapeStr(Shape(v)) \o <<":", "\n">>

\* the branch hasattr(data, 'shape') of _format_data_as_text_safe
ArrayText(v) ==
    IF Size(v) > MaxElements
    THEN IF Len(Shape(v)) = 1
         THEN LET preview == Corner(v, PreviewItems, 0)
              IN  IF StrRaises(preview)
                  THEN <<"1", "D", " ", "A", "r", "r", "a", "y", " ", "s", "h", "a", "p", "e", " ">> \o ShapeStr(Shape(v)) \o <<":", "\n", "F", "i", "r", "s", "t", " ", "1", "0", " ", "e", "l", "e", "m", "e", "n", "t", "s", ":", " ", "[", "d", "a", "t", "a", " ", "a", "c", "c", "e", "s", "s", " ", "e", "r", "r", "o", "r", "]", "\n", ".", ".", ".", " ", "(", "s", "h", "o", "w", "i", "n", "g", " ", "f", "i", "r", "s", "t", " ", "1", "0", " ", "o", "f", " ">> \o IntToStr(Size(v)) \o <<" ", "e", "l", "e", "m", "e", "n", "t", "s", ")">>
                  ELSE ArrayShapeHead(v) \o Str(preview) \o <<"\n", ".", ".", ".", " ", "(", "s", "h", "o", "w", "i", "n", "g", " ", "f", "i", "r", "s", "t", " ", "1", "0", " ", "o", "f", " ">> \o IntToStr(Size(v)) \o <<" ", "e", "l", "e", "m", "e", "n", "t", "s", ")">>
         ELSE IF Len(Shape(v)) = 2
         THEN LET rows == Min(PreviewItems, Shape(v)[1])
                  cols == Min(PreviewItems, Shape(v)[2])
                  preview == Corner(v, rows, cols)
              IN  IF StrRaises(preview)
                  THEN <<"2", "D", " ", "A", "r", "r", "a", "y", " ", "s", "h", "a", "p", "e", " ">> \o ShapeStr(Shape(v)) \o <<":", "\n", "F", "i", "r", "s", "t", " ", "1", "0", "x", "1", "0", " ", "e", "l", "e", "m", "e", "n", "t", "s", ":", " ", "[", "d", "a", "t", "a", " ", "a", "c", "c", "e", "s", "s", " ", "e", "r", "r", "o", "r", "]", "\n", ".", ".", ".", " ", "(", "s", "h", "o", "w", "i", "n", "g", " ", "p", "a", "r", "t", "i", "a", "l", " ", "d", "a", "t", "a", ")">>
                  ELSE ArrayShapeHead(v) \o Str(preview) \o <<"\n", ".", ".", ".", " ", "(", "s", "h", "o", "w", "i", "n", "g", " ", "f", "i", "r", "s", "t", " ">>
                          \o IntToStr(rows) \o <<"x">> \o IntToStr(cols) \o <<" ", "o", "f", " ">>
                          \o IntToStr(Shape(v)[1]) \o <<"x">> \o IntToStr(Shape(v)[2]) \o <<" ", "e", "l", "e", "m", "e", "n", "t", "s", ")">>
         ELSE <<"M", "u", "l", "t", "i", "-", "d", "i", "m", "e", "n", "s", "i", "o", "n", "a", "l", " ", "a", "r", "r", "a", "y", " ">> \o ShapeStr(Shape(v)) \o <<":", "\n", "T", "o", "o", " ", "l", "a", "r", "g", "e", " ", "t", "o", " ", "d", "i", "s", "p", "l", "a", "y", ",", " ", "u", "s", "e", " ", "R", "a", "w", " ", "D", "a", "t", "a", " ", "t", "a", "b", " ", "f", "o", "r", " ", "d", "e", "t", "a", "i", "l", "s">>
    ELSE IF StrRaises(v) THEN ArrayShapeHead(v) \o <<"[", "U", "n", "a", "b", "l", "e", " ", "t", "o", " ", "c", "o", "n", "v", "e", "r", "t", " ", "t", "o", " ", "s", "t", "r", "i", "n", "g", " ", "s", "a", "f", "e", "l", "y", "]">>
    ELSE Str(v)

_format_data_as_text_safe(v) ==
    IF HasShape(v) THEN ArrayText(v)
    ELSE IF v.t = "dict"
    THEN IF StrRaises(v) THEN TextPlaceholder(v, v)
         ELSE Join([i \in 1..Len(v.items) |-> DictLine(v, i)], <<"\n">>)
    ELSE IF v.t = "list" /\ Len(v.items) > MaxElements
    THEN LET preview == PyList(SubSeq(v.items, 1, PreviewItems))
         IN  IF StrRaises(preview) THEN TextPlaceholder(v, preview)
             ELSE Str(preview) \o <<"\n", ".", ".", ".", " ", "(", "s", "h", "o", "w", "i", "n", "g", " ", "f", "i", "r", "s", "t", " ", "1", "0", " ", "o", "f", " ">> \o IntToStr(Len(v.items)) \o <<" ", "i", "t", "e", "m", "s", ")">>
    ELSE IF StrRaises(v) THEN TextPlaceholder(v, v)
    ELSE IF v.t # "list" /\ Len(Str(v)) > MaxChars THEN SubSeq(Str(v), 1, MaxChars) \o Truncated
    ELSE Str(v)

\* the branch size > 100 of _get_raw_text_safe: data.flat[:10]
LargeArrayRaw(v) ==
    LET preview == PyArray(1, FlatPrefix(v, PreviewItems))
    IN  IF StrRaises(preview)
        THEN <<"L", "a", "r", "g", "e", " ", "a", "r", "r", "a", "y", " ">> \o ShapeStr(Shape(v)) \o <<":", "\n", "D", "a", "t", "a", " ", "t", "y", "p", "e", ":", " ">> \o TypeRepr(v) \o <<"\n", "T", "o", "o", " ", "l", "a", "r", "g", "e", " ", "t", "o", " ", "p", "r", "e", "v", "i", "e", "w", " ", "s", "a", "f", "e", "l", "y">>
        ELSE <<"L", "a", "r", "g", "e", " ", "a", "r", "r", "a", "y", " ">> \o ShapeStr(Shape(v)) \o <<":", "\n", "F", "i", "r", "s", "t", " ", "1", "0", " ", "e", "l", "e", "m", "e", "n", "t", "s", ":", " ">> \o Str(preview) \o Truncated

\* _get_raw_text_safe with the test size >= 100
_get_raw_text_safe_AtLeast(v) ==
    IF HasShape(v) /\ Size(v) >= RawElements THEN LargeArrayRaw(v)
    ELSE IF StrRaises(v) THEN RawPlaceholder(v)
    ELSE IF Len(Repr(v)) > MaxChars THEN SubSeq(Repr(v), 1, MaxChars) \o Truncated
    ELSE Repr(v)

_get_raw_text_safe(v) ==
    IF HasShape(v) /\ Size(v) > RawElements THEN LargeArrayRaw(v)
    ELSE IF StrRaises(v) THEN RawPlaceholder(v)
    ELSE IF Len(Repr(v)) > MaxChars THEN SubSeq(Repr(v), 1, MaxChars) \o Truncated
    ELSE Repr(v)

\* the UserRole data of a value cell: (action, value, path)
Cell(action, value, path) == [action |-> action, value |-> value, path |-> path]

\* the action _populate_dict_table and _populate_list_table mark a cell with
CellAction(value) ==
    IF IsArray(value) THEN "navigate"
    ELSE IF IsContainer(value) /\ StrLen(value) > CellChars THEN "navigate"
    ELSE "value"

\* the path a table cell carries
CellPath(v, path, i) ==
    IF v.t = "dict" THEN path \o <<".">> \o Str(v.keys[i])
    ELSE path \o <<"[">> \o IntToStr(i - 1) \o <<"]">>

\* filling a cell raises: len(str(value)) or str(value) does
CellRaises(value) == ~IsArray(value) /\ StrRaises(value)

\* rows the table of a dict or list has
TableRows(v) == IF v.t = "dict" THEN Len(v.items) ELSE Min(Len(v.items), MaxListRows)

\* the item _populate_table_recursive sets for the element `value` of an
\* array: navigable when it is an array itself; "Error" without data when
\* str(value) raises
ArrayCell(value, path) ==
    IF IsArray(Deref(value)) THEN Cell("navigate", value, path)
    ELSE IF StrRaises(Deref(value)) THEN Cell("", NoneRef, <<>>)
    ELSE Cell("value", value, path)

\* the segment [i] or [i,j] a table of an array appends to the path
IndexSegment(ix) ==
    <<"[">> \o Join([k \in 1..Len(ix) |-> IntToStr(ix[k])], <<",">>) \o <<"]">>

\* _populate_table_recursive: the items with their UserRole data, row by row
ArrayCells(h, path) ==
    LET v == Deref(h)
        shape == Shape(v)
    IN  IF Len(shape) = 1
        THEN [i \in 1..Min(shape[1], MaxArrayCols) |->
                 ArrayCell(Child(h, i), path \o IndexSegment(<<i - 1>>))]
        ELSE IF Len(shape) = 2
        THEN LET max_rows == Min(shape[1], MaxRows2D)
                 max_cols == Min(shape[2], MaxCols2D)
             IN  [k \in 1..(max_rows * max_cols) |->
                     LET i == (k - 1) \div max_cols
                         j == (k - 1) % max_cols
                     IN  ArrayCell(Child(Child(h, i + 1), j + 1),
                                   path \o IndexSegment(<<i, j>>))]
        ELSE IF Len(shape) > 2
        THEN [i \in 1..Min(shape[1], MaxRowsND) |->
                 Cell("navigate", Child(h, i), path \o IndexSegment(<<i - 1>>))]
        ELSE <<>>

\* _show_table_view of the value h refers to: the tab it adds, or a raise
\* (no tab is added then)
TableView(h, path) ==
    LET v == Deref(h)
    IN  IF HasShape(v)
        THEN [exc |-> FALSE,
              tab |-> [title |-> "Table View", kind |-> "table", cells |-> ArrayCells(h, path),
                       text |-> <<>>]]
        ELSE IF v.t \in {"dict", "list"}
        THEN IF \E i \in 1..TableRows(v) : CellRaises(v.items[i])
             THEN [exc |-> TRUE, tab |-> [title |-> "Table View", kind |-> "none", cells |-> <<>>, text |-> <<>>]]
             ELSE [exc |-> FALSE,
                   tab |-> [title |-> "Table View", kind |-> "table",
                            cells |-> [i \in 1..TableRows(v) |->
                                          Cell(CellAction(v.items[i]), Child(h, i), CellPath(v, path, i))],
                            text |-> <<>>]]
        ELSE [exc |-> FALSE,
              tab |-> [title |-> "Table View", kind |-> "label", cells |-> <<>>, text |-> <<>>]]

TextTab(title, text) == [title |-> title, kind |-> "text", cells |-> <<>>, text |-> text]

(***************************************************************************)
(* State                                                                   *)
(***************************************************************************)
VARIABLES
    disk,               \* the file paths that exist
    cached_data,        \* FileLoader.cached_data
    file_metadata,      \* FileLoader.file_metadata
    loader_call,        \* the last direct call of FileLoader.load_file and its outcome
    threads,            \* the FileLoadThreads started, in order: path and position
    load_thread,        \* MainWindow.load_thread: index into threads, 0 before the first load
    events,             \* signals of the workers queued for the interaction thread
    mw_current_data,    \* MainWindow.current_data
    mw_current_metadata,\* MainWindow.current_metadata
    recent_files,       \* MainWindow.recent_files
    progress_bar,       \* progress_bar.isVisible()
    status_label,       \* status_label.text()
    format_label,       \* format_label.text()
    last_dialog,        \* the last QMessageBox shown
    di_current_data,    \* DataInspector.current_data
    di_current_metadata,\* DataInspector.current_metadata
    tree_data,          \* DataTreeWidget.data
    tree,               \* the top-level items of the DataTreeWidget
    current_data,       \* DataTab.current_data
    current_path,       \* DataTab.current_path
    data_stack,         \* DataTab.data_stack
    display_cache,      \* DataTab.display_cache
    back_btn,           \* back_btn.isEnabled()
    path_label,         \* path_label.text()
    data_display,       \* the tabs of DataTab.data_display, in order
    click_timer,        \* click_timer.isActive()
    last_clicked_item,  \* DataTab.last_clicked_item
    formatter_runs,     \* runs of each view's formatter since the frame was set
    exc,                \* the last handler ended in an uncaught exception
    round_trip          \* observer: progress of a push, push, back, back sequence

loader_vars == <<disk, cached_data, file_metadata, loader_call>>
load_vars == <<threads, load_thread, events>>
mw_vars == <<mw_current_data, mw_current_metadata, recent_files, progress_bar,
             status_label, format_label, last_dialog>>
di_vars == <<di_current_data, di_current_metadata, tree_data, tree>>
tab_vars == <<current_data, current_path, data_stack, display_cache, back_btn,
              path_label, data_display, formatter_runs>>
click_vars == <<click_timer, last_clicked_item>>
vars == <<loader_vars, load_vars, mw_vars, di_vars, tab_vars, click_vars, exc, round_trip>>

(***************************************************************************)
(* Bounds                                                                  *)
(***************************************************************************)
\* load requests that start a thread
MaxLoads == 2
\* frames on the navigation stack
MaxStack == 2
\* update_view calls on one frame
MaxRenders == 2

(***************************************************************************)
(* DataTab                                                                 *)
(***************************************************************************)
EmptyCache == [k \in {} |-> <<>>]
NoRuns == [raw |-> 0, text |-> 0, table |-> 0]
NoCell == Cell("", NoneRef, <<>>)
RootText == <<"R", "o", "o", "t">>

\* the data tab as one record, for the methods below
Tab ==
    [current_data |-> current_data, current_path |-> current_path,
     data_stack |-> data_stack, display_cache |-> display_cache, back_btn |-> back_btn,
     path_label |-> path_label, data_display |-> data_display,
     formatter_runs |-> formatter_runs, exc |-> FALSE]

Put(cache, key, text) == [k \in DOMAIN cache \cup {key} |-> IF k = key THEN text ELSE cache[k]]

_show_raw_view(tab) ==
    IF "raw_view" \in DOMAIN tab.display_cache
    THEN [tab EXCEPT !.data_display = Append(@, TextTab("Raw Data", tab.display_cache["raw_view"]))]
    ELSE LET raw_text == _get_raw_text_safe(Deref(tab.current_data))
         IN  [tab EXCEPT !.display_cache = Put(@, "raw_view", raw_text),
                         !.formatter_runs.raw = @ + 1,
                         !.data_display = Append(@, TextTab("Raw Data", raw_text))]

\* _show_text_view without the cache lookup
_show_text_view_NoCache(tab) ==
    LET text_content == _format_data_as_text_safe(Deref(tab.current_data))
    IN  [tab EXCEPT !.display_cache = Put(@, "text_view", text_content),
                    !.formatter_runs.text = @ + 1,
                    !.data_display = Append(@, TextTab("Text View", text_content))]

_show_text_view(tab) ==
    IF "text_view" \in DOMAIN tab.display_cache
    THEN [tab EXCEPT !.data_display = Append(@, TextTab("Text View", tab.display_cache["text_view"]))]
    ELSE LET text_content == _format_data_as_text_safe(Deref(tab.current_data))
         IN  [tab EXCEPT !.display_cache = Put(@, "text_view", text_content),
                         !.formatter_runs.text = @ + 1,
                         !.data_display = Append(@, TextTab("Text View", text_content))]

_show_table_view(tab) ==
    LET tv == TableView(tab.current_data, tab.current_path)
    IN  IF tv.exc
        THEN [tab EXCEPT !.formatter_runs.table = @ + 1, !.exc = TRUE]
        ELSE [tab EXCEPT !.formatter_runs.table = @ + 1,
                         !.data_display = Append(@, tv.tab)]

update_view(tab) ==
    IF IsNone(tab.current_data) THEN tab
    ELSE _show_table_view(_show_text_view(_show_raw_view(
            [tab EXCEPT !.path_label = IF Len(tab.current_path) > 0 THEN tab.current_path
                                       ELSE RootText,
                        !.data_display = <<>>])))

set_data(tab, data, path) ==
    update_view([tab EXCEPT !.current_data = data, !.current_path = path,
                            !.display_cache = EmptyCache, !.formatter_runs = NoRuns])

\* go_back that leaves the Back button as it is
go_back_NoDisable(tab) ==
    IF Len(tab.data_stack) > 0
    THEN LET top == tab.data_stack[Len(tab.data_stack)]
         IN  update_view([tab EXCEPT !.data_stack = SubSeq(@, 1, Len(@) - 1),
                                     !.current_data = top[1],
                                     !.current_path = top[2],
                                     !.display_cache = EmptyCache,
                                     !.formatter_runs = NoRuns])
    ELSE tab

\* go_back that restores the value but not the path of the popped frame
go_back_KeepsPath(tab) ==
    IF Len(tab.data_stack) > 0
    THEN LET top == tab.data_stack[Len(tab.data_stack)]
             shown == update_view([tab EXCEPT !.data_stack = SubSeq(@, 1, Len(@) - 1),
                                              !.current_data = top[1],
                                              !.display_cache = EmptyCache,
                                              !.formatter_runs = NoRuns])
         IN  IF shown.exc \/ Len(shown.data_stack) > 0 THEN shown
             ELSE [shown EXCEPT !.back_btn = FALSE]
    ELSE tab

go_back(tab) ==
    IF Len(tab.data_stack) > 0
    THEN LET top == tab.data_stack[Len(tab.data_stack)]
             shown == update_view([tab EXCEPT !.data_stack = SubSeq(@, 1, Len(@) - 1),
                                              !.current_data = top[1],
                                              !.current_path = top[2],
                                              !.display_cache = EmptyCache,
                                              !.formatter_runs = NoRuns])
         IN  IF shown.exc \/ Len(shown.data_stack) > 0 THEN shown
             ELSE [shown EXCEPT !.back_btn = FALSE]
    ELSE tab

\* push_data without display_cache.clear()
push_data_KeepsCache(tab, data, path) ==
    LET shown == update_view([tab EXCEPT !.data_stack = Append(@, <<tab.current_data, tab.current_path>>),
                                         !.current_data = data,
                                         !.current_path = path,
                                         !.formatter_runs = NoRuns])
    IN  IF shown.exc THEN shown ELSE [shown EXCEPT !.back_btn = TRUE]

push_data(tab, data, path) ==
    LET shown == update_view([tab EXCEPT !.data_stack = Append(@, <<tab.current_data, tab.current_path>>),
                                         !.current_data = data,
                                         !.current_path = path,
                                         !.display_cache = EmptyCache,
                                         !.formatter_runs = NoRuns])
    IN  IF shown.exc THEN shown ELSE [shown EXCEPT !.back_btn = TRUE]

\* The observer of navigation round trips.  phase 1: a push was made from a
\* frame `root` with an empty stack; 2: a second push followed; 3 and 4: one
\* and two go_back calls followed.  Any other change of frame ends the
\* observation.
NoTrip == [phase |-> 0, root |-> <<NoneRef, <<>>>>]

AfterPush ==
    IF Len(data_stack) = 0 THEN [phase |-> 1, root |-> <<current_data, current_path>>]
    ELSE IF round_trip.phase = 1 THEN [round_trip EXCEPT !.phase = 2]
    ELSE NoTrip

AfterBack ==
    IF Len(data_stack) = 0 THEN round_trip
    ELSE IF round_trip.phase \in {2, 3} THEN [round_trip EXCEPT !.phase = @ + 1]
    ELSE NoTrip

\* the data tab's variables after a method returned `tab`
TabBecomes(tab) ==
    /\ current_data' = tab.current_data
    /\ current_path' = tab.current_path
    /\ data_stack' = tab.data_stack
    /\ display_cache' = tab.display_cache
    /\ back_btn' = tab.back_btn
    /\ path_label' = tab.path_label
    /\ data_display' = tab.data_display
    /\ formatter_runs' = tab.formatter_runs
    /\ exc' = tab.exc

(***************************************************************************)
(* MainWindow and DataInspector                                            *)
(***************************************************************************)
\* len(self.recent_files) > 10
MaxRecent == 10

NoTree == <<>>

\* list.remove(x): the list without the first occurrence of x
Remove(list, x) ==
    IF \A i \in 1..Len(list) : list[i] # x THEN list
    ELSE LET first == CHOOSE i \in 1..Len(list) :
                         list[i] = x /\ \A j \in 1..(i - 1) : list[j] # x
         IN  SubSeq(list, 1, first - 1) \o SubSeq(list, first + 1, Len(list))

\* add_to_recent_files without the removal of the path from its old place
add_to_recent_files_NoRemove(list, file_path) ==
    LET inserted == <<file_path>> \o list
    IN  IF Len(inserted) > MaxRecent THEN SubSeq(inserted, 1, MaxRecent) ELSE inserted

\* recent_files after add_to_recent_files(file_path)
add_to_recent_files(list, file_path) ==
    LET inserted == <<file_path>> \o Remove(list, file_path)
    IN  IF Len(inserted) > MaxRecent THEN SubSeq(inserted, 1, MaxRecent) ELSE inserted

\* the object a successful load of thread t hands over
RootRef(t, doc) == [tid |-> t, doc |-> doc, at |-> <<>>]

\* MainWindow.load_file, the early returns: a warning box and nothing else
LoadFileRejected(file_path) ==
    /\ file_path \notin disk \/ ~is_supported(file_path)
    /\ last_dialog' = IF file_path \notin disk THEN <<"file_not_found", file_path>>
                      ELSE <<"unsupported_format", file_path>>
    /\ exc' = FALSE
    /\ UNCHANGED <<loader_vars, load_vars, mw_current_data, mw_current_metadata, recent_files,
                   progress_bar, status_label, format_label, di_vars, tab_vars, click_vars,
                   round_trip>>

\* MainWindow.load_file: a new FileLoadThread replaces self.load_thread and starts
LoadFileStart(file_path) ==
    /\ file_path \in disk
    /\ is_supported(file_path)
    /\ progress_bar' = TRUE
    /\ status_label' = <<"loading", <<>>>>
    /\ threads' = Append(threads, [file_path |-> file_path, st |-> "running"])
    /\ load_thread' = Len(threads) + 1
    /\ exc' = FALSE
    /\ UNCHANGED <<loader_vars, events, mw_current_data, mw_current_metadata, recent_files,
                   format_label, last_dialog, di_vars, tab_vars, click_vars, round_trip>>

\* a run that emits its outcome twice
ThreadRun_EmitsTwice(t) ==
    /\ threads[t].st = "running"
    /\ LET out == LoaderLoadFile(threads[t].file_path, disk)
       IN  events' = events \o <<[tid |-> t, out |-> out], [tid |-> t, out |-> out]>>
    /\ threads' = [threads EXCEPT ![t].st = "finished"]
    /\ UNCHANGED <<loader_vars, load_thread, mw_vars, di_vars, tab_vars, click_vars, exc,
                   round_trip>>

\* FileLoadThread.run: load_file, then dataLoaded or errorOccurred is emitted
\* (queued for the interaction thread)
ThreadRun(t) ==
    /\ threads[t].st = "running"
    /\ LET out == LoaderLoadFile(threads[t].file_path, disk)
       IN  events' = Append(events, [tid |-> t, out |-> out])
    /\ threads' = [threads EXCEPT ![t].st = "finished"]
    /\ UNCHANGED <<loader_vars, load_thread, mw_vars, di_vars, tab_vars, click_vars, exc,
                   round_trip>>

\* MainWindow.on_data_loaded with DataInspector.set_data and
\* DataTreeWidget.set_data, for the signal at the head of the queue
on_data_loaded ==
    /\ Len(events) > 0
    /\ Head(events).out.kind = "ok"
    /\ LET ev == Head(events)
           data == RootRef(ev.tid, ev.out.doc)
           metadata == ev.out.metadata
           built == BuildTree(Deref(data), <<metadata.file_format>>)
       IN  /\ events' = Tail(events)
           /\ mw_current_data' = data
           /\ mw_current_metadata' = metadata
           /\ di_current_data' = data
           /\ di_current_metadata' = metadata
           /\ tree_data' = data
           /\ tree' = <<built.root>>
           /\ exc' = built.exc
           /\ IF built.exc
              THEN UNCHANGED <<recent_files, progress_bar, status_label, format_label>>
              ELSE /\ recent_files' = add_to_recent_files(recent_files, metadata.file_path)
                   /\ progress_bar' = FALSE
                   /\ status_label' = <<"loaded", metadata.file_name>>
                   /\ format_label' = metadata.file_format
    /\ UNCHANGED <<loader_vars, threads, load_thread, last_dialog, tab_vars, click_vars,
                   round_trip>>

\* on_load_error that also drops the active document
on_load_error_ClearsDocument ==
    /\ Len(events) > 0
    /\ Head(events).out.kind # "ok"
    /\ events' = Tail(events)
    /\ progress_bar' = FALSE
    /\ status_label' = <<"load_failed", <<>>>>
    /\ last_dialog' = <<"load_error", threads[Head(events).tid].file_path>>
    /\ mw_current_data' = NoneRef
    /\ exc' = FALSE
    /\ UNCHANGED <<loader_vars, threads, load_thread, mw_current_metadata,
                   recent_files, format_label, di_vars, tab_vars, click_vars, round_trip>>

\* MainWindow.on_load_error, for the signal at the head of the queue
on_load_error ==
    /\ Len(events) > 0
    /\ Head(events).out.kind # "ok"
    /\ events' = Tail(events)
    /\ progress_bar' = FALSE
    /\ status_label' = <<"load_failed", <<>>>>
    /\ last_dialog' = <<"load_error", threads[Head(events).tid].file_path>>
    /\ exc' = FALSE
    /\ UNCHANGED <<loader_vars, threads, load_thread, mw_current_data, mw_current_metadata,
                   recent_files, format_label, di_vars, tab_vars, click_vars, round_trip>>

\* DataInspector.on_selection_changed for a selected tree item, with
\* DetailPanel.show_data_detail
on_selection_changed(item) ==
    /\ LET data_path == item.path
           selected_data == get_data_at_path(tree_data, data_path)
       IN  TabBecomes(set_data(Tab, selected_data, data_path))
    /\ round_trip' = NoTrip
    /\ UNCHANGED <<loader_vars, load_vars, mw_vars, di_vars, click_vars>>

TreeItems == UNION {ItemsBelow(tree[i]) : i \in 1..Len(tree)}

\* the value cells of the table on display
ShownCells ==
    UNION {{data_display[i].cells[j] : j \in 1..Len(data_display[i].cells)} :
             i \in 1..Len(data_display)}

\* a click that enters a navigable cell at once
_on_table_item_clicked_Enters(item) ==
    /\ last_clicked_item' = item
    /\ click_timer' = TRUE
    /\ IF item.action = "navigate" /\ Len(data_stack) < MaxStack
       THEN TabBecomes(push_data(Tab, item.value, item.path))
       ELSE exc' = FALSE /\ UNCHANGED tab_vars
    /\ UNCHANGED <<loader_vars, load_vars, mw_vars, di_vars, round_trip>>

_on_table_item_clicked(item) ==
    /\ last_clicked_item' = item
    /\ click_timer' = TRUE
    /\ exc' = FALSE
    /\ UNCHANGED <<loader_vars, load_vars, mw_vars, di_vars, tab_vars, round_trip>>

\* the click timer's timeout
_handle_single_click ==
    /\ click_timer
    /\ click_timer' = FALSE
    /\ exc' = FALSE
    /\ UNCHANGED <<loader_vars, load_vars, mw_vars, di_vars, tab_vars, last_clicked_item,
                   round_trip>>

\* the double click without click_timer.stop()
_on_table_item_double_clicked_KeepsTimer(item) ==
    /\ item.action = "navigate" => Len(data_stack) < MaxStack
    /\ click_timer' = click_timer
    /\ IF item.action = "navigate"
       THEN /\ TabBecomes(push_data(Tab, item.value, item.path))
            /\ round_trip' = AfterPush
       ELSE /\ exc' = FALSE
            /\ UNCHANGED <<tab_vars, round_trip>>
    /\ UNCHANGED <<loader_vars, load_vars, mw_vars, di_vars, last_clicked_item>>

_on_table_item_double_clicked(item) ==
    /\ item.action = "navigate" => Len(data_stack) < MaxStack
    /\ click_timer' = FALSE
    /\ IF item.action = "navigate"
       THEN /\ TabBecomes(push_data(Tab, item.value, item.path))
            /\ round_trip' = AfterPush
       ELSE /\ exc' = FALSE
            /\ UNCHANGED <<tab_vars, round_trip>>
    /\ UNCHANGED <<loader_vars, load_vars, mw_vars, di_vars, last_clicked_item>>

\* DataTab.go_back (the Back button)
GoBack ==
    /\ TabBecomes(go_back(Tab))
    /\ round_trip' = AfterBack
    /\ UNCHANGED <<loader_vars, load_vars, mw_vars, di_vars, click_vars>>

\* DataTab.update_view called on the frame as it is
UpdateView ==
    /\ formatter_runs.table < MaxRenders
    /\ TabBecomes(update_view(Tab))
    /\ UNCHANGED <<loader_vars, load_vars, mw_vars, di_vars, click_vars, round_trip>>

(***************************************************************************)
(* FileLoader.load_file called directly, on a disk that changes            *)
(***************************************************************************)
NoCall == [file_path |-> <<>>, existed |-> FALSE, out |-> Outcome("", 0, NoMetadata)]

CallLoadFile(file_path) ==
    /\ loader_call' = [file_path |-> file_path, existed |-> file_path \in disk,
                        out |-> LoaderLoadFile(file_path, disk)]
    /\ UNCHANGED <<disk, cached_data, file_metadata, load_vars, mw_vars, di_vars, tab_vars,
                   click_vars, exc, round_trip>>

Unlink(file_path) ==
    /\ file_path \in disk
    /\ disk' = disk \ {file_path}
    /\ UNCHANGED <<cached_data, file_metadata, loader_call, load_vars, mw_vars, di_vars,
                   tab_vars, click_vars, exc, round_trip>>

Create(file_path) ==
    /\ file_path \notin disk
    /\ disk' = disk \cup {file_path}
    /\ UNCHANGED <<cached_data, file_metadata, loader_call, load_vars, mw_vars, di_vars,
                   tab_vars, click_vars, exc, round_trip>>

(***************************************************************************)
(* Specifications                                                          *)
(***************************************************************************)
Init ==
    /\ disk = InitialFiles
    /\ cached_data = EmptyCache
    /\ file_metadata = EmptyCache
    /\ loader_call = NoCall
    /\ threads = <<>>
    /\ load_thread = 0
    /\ events = <<>>
    /\ mw_current_data = NoneRef
    /\ mw_current_metadata = NoMetadata
    /\ recent_files = <<>>
    /\ progress_bar = FALSE
    /\ status_label = <<"ready", <<>>>>
    /\ format_label = ""
    /\ last_dialog = <<"", <<>>>>
    /\ di_current_data = NoneRef
    /\ di_current_metadata = NoMetadata
    /\ tree_data = NoneRef
    /\ tree = NoTree
    /\ current_data = NoneRef
    /\ current_path = <<>>
    /\ data_stack = <<>>
    /\ display_cache = EmptyCache
    /\ back_btn = FALSE
    /\ path_label = RootText
    /\ data_display = <<>>
    /\ click_timer = FALSE
    /\ last_clicked_item = NoCell
    /\ formatter_runs = NoRuns
    /\ exc = FALSE
    /\ round_trip = NoTrip

\* the main window: load requests, workers and their signals
Next ==
    \/ \E file_path \in FilePaths : LoadFileRejected(file_path)
    \/ \E file_path \in FilePaths : Len(threads) < MaxLoads /\ LoadFileStart(file_path)
    \/ \E t \in 1..Len(threads) : ThreadRun(t)
    \/ on_data_loaded
    \/ on_load_error

Spec == Init /\ [][Next]_vars

\* one document session: a file is opened, then the inspector is used
NextInspect ==
    \/ \E file_path \in FilePaths : Len(threads) = 0 /\ LoadFileStart(file_path)
    \/ \E t \in 1..Len(threads) : ThreadRun(t)
    \/ on_data_loaded
    \/ on_load_error
    \/ \E item \in TreeItems : on_selection_changed(item)
    \/ \E item \in ShownCells : _on_table_item_double_clicked(item)
    \/ GoBack
    \/ UpdateView

SpecInspect == Init /\ [][NextInspect]_vars

\* the files opened in the sessions that follow the table's signals
ClickPaths == {PathO, PathN3, PathBad}

\* one document session with the table's click signals: itemClicked arms
\* the 300 ms timer, its timeout or a double click ends it
NextClicks ==
    \/ \E file_path \in ClickPaths : Len(threads) = 0 /\ LoadFileStart(file_path)
    \/ \E t \in 1..Len(threads) : ThreadRun(t)
    \/ on_data_loaded
    \/ on_load_error
    \/ \E item \in TreeItems : on_selection_changed(item)
    \/ \E item \in ShownCells : _on_table_item_double_clicked(item)
    \/ GoBack
    \/ UpdateView
    \/ \E item \in ShownCells : _on_table_item_clicked(item)
    \/ _handle_single_click

SpecClicks == Init /\ [][NextClicks]_vars

\* documents opened one after the other: a file is opened once the previous
\* load has been delivered, and the inspector is used in between
NextReplace ==
    \/ \E file_path \in ClickPaths :
          /\ Len(threads) < MaxLoads
          /\ \A t \in 1..Len(threads) : threads[t].st = "finished"
          /\ events = <<>>
          /\ LoadFileStart(file_path)
    \/ \E t \in 1..Len(threads) : ThreadRun(t)
    \/ on_data_loaded
    \/ on_load_error
    \/ \E item \in TreeItems : on_selection_changed(item)
    \/ \E item \in ShownCells : _on_table_item_double_clicked(item)
    \/ GoBack

SpecReplace == Init /\ [][NextReplace]_vars

\* the files opened in the sessions that follow the tree builder
TreePaths == {PathA, PathW, PathT, PathM, PathH, PathN1, PathN2, PathBad}

\* documents opened one after the other, each building the overview tree,
\* and the selection of its items
NextTree ==
    \/ \E file_path \in TreePaths :
          /\ Len(threads) < MaxLoads
          /\ \A t \in 1..Len(threads) : threads[t].st = "finished"
          /\ events = <<>>
          /\ LoadFileStart(file_path)
    \/ \E t \in 1..Len(threads) : ThreadRun(t)
    \/ on_data_loaded
    \/ on_load_error
    \/ \E item \in TreeItems : on_selection_changed(item)

SpecTree == Init /\ [][NextTree]_vars

\* a saved list of ten recent files, without duplicates
SavedRecent == <<PathB, PathC, PathA, PathTxt, PathGone, PathMat, PathO, PathN3, PathW, PathT>>

\* the lists load_settings restores in the sessions of the recent files: none,
\* three and ten saved paths
SavedLists == {<<>>, SubSeq(SavedRecent, 1, 3), SavedRecent}

\* the files opened in the sessions of the recent files
RecentPaths == {PathA, PathN1, PathN2, PathBad}

\* the state after construction with a restored list of recent files
InitRecent ==
    /\ disk = InitialFiles
    /\ cached_data = EmptyCache
    /\ file_metadata = EmptyCache
    /\ loader_call = NoCall
    /\ threads = <<>>
    /\ load_thread = 0
    /\ events = <<>>
    /\ mw_current_data = NoneRef
    /\ mw_current_metadata = NoMetadata
    /\ recent_files \in SavedLists
    /\ progress_bar = FALSE
    /\ status_label = <<"ready", <<>>>>
    /\ format_label = ""
    /\ last_dialog = <<"", <<>>>>
    /\ di_current_data = NoneRef
    /\ di_current_metadata = NoMetadata
    /\ tree_data = NoneRef
    /\ tree = NoTree
    /\ current_data = NoneRef
    /\ current_path = <<>>
    /\ data_stack = <<>>
    /\ display_cache = EmptyCache
    /\ back_btn = FALSE
    /\ path_label = RootText
    /\ data_display = <<>>
    /\ click_timer = FALSE
    /\ last_clicked_item = NoCell
    /\ formatter_runs = NoRuns
    /\ exc = FALSE
    /\ round_trip = NoTrip

\* files opened one after the other
NextRecent ==
    \/ \E file_path \in RecentPaths :
          /\ Len(threads) < MaxLoads
          /\ \A t \in 1..Len(threads) : threads[t].st = "finished"
          /\ events = <<>>
          /\ LoadFileStart(file_path)
    \/ \E t \in 1..Len(threads) : ThreadRun(t)
    \/ on_data_loaded
    \/ on_load_error

SpecRecent == InitRecent /\ [][NextRecent]_vars

\* the loader alone
NextLoader ==
    \/ \E file_path \in FilePaths : CallLoadFile(file_path)
    \/ \E file_path \in FilePaths : Unlink(file_path)
    \/ \E file_path \in FilePaths : Create(file_path)

SpecLoader == Init /\ [][NextLoader]_vars

(***************************************************************************)
(* Properties                                                              *)
(***************************************************************************)
Frame == <<current_data, current_path>>

\* C1: navigation stack round trip.  From a frame R with an empty stack,
\* push_data(A), push_data(B) and two go_back calls end in the frame R with an
\* empty stack; go_back on an empty stack changes neither the frame nor the
\* stack.
RoundTripRestoresRoot ==
    [][/\ round_trip'.phase = 4 => (Frame' = round_trip'.root /\ data_stack' = <<>>)
       /\ (GoBack /\ data_stack = <<>>) => UNCHANGED <<current_data, current_path, data_stack>>]_vars

\* two pushes from a root frame and two go_back calls have been made
RoundTripDone == round_trip.phase = 4 /\ ~IsNone(round_trip.root[1])

\* C2: a superseded load is discarded.  The current document only ever
\* becomes the result of the load requested last (self.load_thread).
StaleResultNeverApplied ==
    [][mw_current_data' # mw_current_data => mw_current_data'.tid = load_thread']_vars

RegisteredExtensions == {e[1] : e \in SUPPORTED_FORMATS}

\* C4: FileLoader.load_file fails with FileNotFoundError on a missing path
\* and with ValueError on an existing path with an unregistered extension;
\* these two types never report a decode failure (RuntimeError), and the
\* loader's cached_data and file_metadata are not changed.
LoaderFailuresTyped ==
    /\ cached_data = EmptyCache
    /\ file_metadata = EmptyCache
    /\ loader_call # NoCall =>
        /\ ~loader_call.existed => loader_call.out.kind = "FileNotFoundError"
        /\ (loader_call.existed /\ Suffix(loader_call.file_path) \notin RegisteredExtensions)
               => loader_call.out.kind = "ValueError"
        /\ (loader_call.existed /\ Suffix(loader_call.file_path) \in RegisteredExtensions)
               => loader_call.out.kind \in {"ok", "RuntimeError"}

\* load_file was called on a path that is missing and has no registered extension
MissingUnsupportedCalled ==
    /\ loader_call.file_path = PathTxt
    /\ ~loader_call.existed
    /\ loader_call.out.kind = "FileNotFoundError"

\* C5: path round trip.  Resolving the path of any tree item against the
\* unchanged root yields a value of the type recorded on the item.
PathRoundTrip ==
    \A item \in TreeItems :
        Len(item.path) > 0 => Deref(get_data_at_path(tree_data, item.path)).t = item.type

Modes == {"raw", "text", "table"}

CacheIsOfCurrentFrame ==
    /\ DOMAIN display_cache \in {{}, {"raw_view", "text_view"}}
    /\ IsNone(current_data) => display_cache = EmptyCache
    /\ ~IsNone(current_data) =>
        /\ \A k \in DOMAIN display_cache :
              display_cache[k] = IF k = "raw_view" THEN _get_raw_text_safe(Deref(current_data))
                                 ELSE _format_data_as_text_safe(Deref(current_data))
        /\ \A i \in 1..Len(data_display) :
              /\ data_display[i].title = "Raw Data"
                    => data_display[i].text = _get_raw_text_safe(Deref(current_data))
              /\ data_display[i].title = "Text View"
                    => data_display[i].text = _format_data_as_text_safe(Deref(current_data))

\* a pushed frame has been rendered
PushedFrameRendered ==
    Len(data_stack) > 0 /\ ~IsNone(current_data) /\ DOMAIN display_cache # {}

\* the path does not resolve against the tree's data
ResolveFails(path) ==
    Len(path) > 0 /\ ~IsNone(tree_data) /\ ResolveParts(tree_data, Split(path, ".")) = Raised

\* C8: a resolution failure is no selection.  Selecting a tree item whose
\* path fails to resolve raises nothing and leaves the data tab's frame, stack
\* and display cache unchanged.
FailedResolutionIsNoSelection ==
    [][\A item \in TreeItems :
          (on_selection_changed(item) /\ ResolveFails(item.path))
              => (~exc' /\ UNCHANGED <<current_data, current_path, data_stack, display_cache>>)]_vars

\* C9: rendering never raises to the caller: no handler that renders the
\* views ends in an exception.
RenderingNeverRaises == ~exc

RECURSIVE ItemValues(_, _)
\* the items of a subtree that carry a path, each with the value it was built from
ItemValues(item, v) ==
    {<<item, v>>} \cup
    UNION {ItemValues(item.children[i], v.items[i]) :
             i \in {j \in 1..Len(item.children) : Len(item.children[j].path) > 0}}

BuiltItems == UNION {ItemValues(tree[i], Deref(tree_data)) : i \in 1..Len(tree)}

IndexLabel(i) == <<"[">> \o IntToStr(i) \o <<"]">>

\* the children of an expanded sequence item at width limit W
WidthHolds(item, v, W) ==
    LET N == Len(v.items)
        kids == item.children
        shown == IF N < W THEN N ELSE W
    IN  /\ Len(kids) = IF N > W THEN shown + 1 ELSE shown
        /\ \A i \in 1..shown :
              i <= Len(kids) /\ kids[i].label = IndexLabel(i - 1) /\ Len(kids[i].path) > 0
        /\ N > W =>
              /\ kids[Len(kids)].label = MoreItemsLabel(N - W)
              /\ kids[Len(kids)].children = <<>>
              /\ kids[Len(kids)].path = <<>>

TreeWidthAt(W) ==
    \A iv \in BuiltItems : iv[2].t = "list" => WidthHolds(iv[1], iv[2], W)

IsSubSeq(a, b) == \E i \in 0..(Len(b) - Len(a)) : SubSeq(b, i + 1, i + Len(a)) = a

\* the Text View strings on display
TextViews == {data_display[i].text : i \in {k \in 1..Len(data_display) : data_display[k].title = "Text View"}}

\* the current frame is an array of more than 100 elements
LargeArrayFrame == ~IsNone(current_data) /\ IsArray(Deref(current_data)) /\ Size(Deref(current_data)) > 100

RECURSIVE EdgeCorner(_)
\* the elements of a corner of at most 3 per edge
EdgeCorner(shape) ==
    IF Len(shape) = 0 THEN 1 ELSE (IF Head(shape) < 3 THEN Head(shape) ELSE 3) * EdgeCorner(Tail(shape))

\* the number of elements C11 has the text view preview
Previewed(shape) ==
    IF Len(shape) = 1 THEN 10
    ELSE IF Len(shape) = 2 THEN 100
    ELSE EdgeCorner(shape)

IsRootFrame(frame) == ~IsNone(frame[1]) /\ frame[1].at = <<>> /\ frame[2] = <<>>

\* C13: the back stack never holds the root frame as a duplicate.  The root
\* frame occurs at most once among the saved frames, and only at the bottom.
RootOnlyAtBottom ==
    \A i \in 1..Len(data_stack) : IsRootFrame(data_stack[i]) => i = 1

\* the frames of the data tab: the current one and the saved ones
TabFrames == {Frame} \cup {data_stack[i] : i \in 1..Len(data_stack)}

\* C14: a document is replaced wholesale.  Once DataInspector.set_data has
\* installed a document, no frame of the data tab, current or saved, holds a
\* value of an earlier document.
NoFrameOfPreviousDocument ==
    \A frame \in TabFrames :
        (~IsNone(di_current_data) /\ ~IsNone(frame[1])) => frame[1].tid = di_current_data.tid

\* the FileLoadThreads that have been started and have not finished
Running == {t \in 1..Len(threads) : threads[t].st = "running"}

\* C15: at most one decode is in flight.  In every reachable state at most
\* one FileLoadThread is running, whatever load requests are issued while a
\* load is running.
AtMostOneDecode == Cardinality(Running) <= 1

\* the type load_file raises for a corrupt file of a registered format
DecodeErrorKind == LoaderLoadFile(PathBad, {PathBad}).kind

\* C16: loader failure typing.  When the optional dependency of the decoder
\* is unavailable, load_file ends in a failure of a type of its own, distinct
\* from the type of a decode error, and neither is reported as not found
\* (FileNotFoundError), as an unsupported format (ValueError) or as a success.
MissingDependencyTyped ==
    /\ DecodeErrorKind \notin {"ok", "FileNotFoundError", "ValueError"}
    /\ (/\ loader_call # NoCall
        /\ loader_call.existed
        /\ MissingDependency(Decoder(Suffix(loader_call.file_path)))) =>
           /\ loader_call.out.kind \notin {"ok", "FileNotFoundError", "ValueError"}
           /\ loader_call.out.kind # DecodeErrorKind

\* C17: every registered extension, matched in lower case, dispatches to a
\* decoding routine and never to the branch of unimplemented formats, and
\* the metadata of a successful load holds the decoder's logical type name
\* together with file_path, file_name, file_size, file_format and
\* file_extension.
RegisteredDispatch ==
    /\ \A ext \in RegisteredExtensions : Decoder(ext) # "" /\ DecodedType(Decoder(ext)) # ""
    /\ \A p \in FilePaths : is_supported(p) <=> Suffix(p) \in RegisteredExtensions
    /\ is_supported(PathB) /\ Decoder(Suffix(PathB)) = Decoder(Suffix(PathA))
    /\ loader_call.out.kind = "ok" =>
          LET p == loader_call.file_path
              md == loader_call.out.metadata
          IN  /\ Decoder(Suffix(p)) # ""
              /\ md.type = DecodedType(Decoder(Suffix(p)))
              /\ md.type # ""
              /\ md.file_path = p
              /\ md.file_name = p
              /\ md.file_size = FileSize(p)
              /\ md.file_format = get_format_description(p)
              /\ md.file_format # "Unknown format"
              /\ md.file_extension \in RegisteredExtensions
              /\ \A k \in 1..Len(md.file_extension) : Lower(md.file_extension[k]) = md.file_extension[k]

\* a file with an upper-case extension was loaded
UpperCaseLoaded == loader_call.file_path = PathB /\ loader_call.out.kind = "ok"

\* C18: frame path consistency.  For every frame (value, path), current or
\* saved, replaying the path from the unchanged document root yields exactly
\* the frame's value, the paths composed by the table views included.
FramePathsReplay ==
    \A frame \in TabFrames :
        ~IsNone(frame[1]) => get_data_at_path(tree_data, frame[2]) = frame[1]

\* the threads that finish in a step
Finishing == {t \in Running : threads'[t].st = "finished"}

\* C19: worker handover.  Every started FileLoadThread delivers exactly one
\* terminal outcome, dataLoaded or errorOccurred: the step in which a thread
\* finishes queues one signal of that thread, no other step queues a signal,
\* and a finished thread never runs again.  The worker writes no navigator
\* state: its step leaves the document, the tree and the data tab unchanged,
\* and the current document changes only when a dataLoaded signal is handled.
WorkerHandover ==
    [][/\ \A t \in 1..Len(threads) : threads[t].st = "finished" => threads'[t] = threads[t]
       /\ \A t \in Finishing :
             /\ Finishing = {t}
             /\ Len(events') = Len(events) + 1
             /\ SubSeq(events', 1, Len(events)) = events
             /\ events'[Len(events')].tid = t
             /\ events'[Len(events')].out = LoaderLoadFile(threads[t].file_path, disk)
             /\ UNCHANGED <<mw_vars, di_vars, tab_vars, click_vars>>
       /\ Finishing = {} => (events' = events \/ (events # <<>> /\ events' = Tail(events)))
       /\ <<mw_current_data, di_current_data, tree_data, tree>>' # <<mw_current_data, di_current_data, tree_data, tree>>
             => (events # <<>> /\ Head(events).out.kind = "ok" /\ events' = Tail(events))]_vars

\* two workers have finished, one with dataLoaded and one with errorOccurred,
\* and both signals have been handled
BothOutcomesHandled ==
    /\ Len(threads) = 2
    /\ Running = {}
    /\ events = <<>>
    /\ ~IsNone(mw_current_data)
    /\ last_dialog[1] = "load_error"

\* C20: navigable-cell marking.  In every table view a cell is marked
\* 'navigate' if and only if its value is a mapping, a sequence or an array of
\* at least one dimension, whatever its size, and 'value' if and only if it
\* is a terminal scalar; every populated cell carries (action, value, path).
NavigableIffStructured ==
    \A cell \in ShownCells :
        /\ cell.action \in {"navigate", "value"}
        /\ cell.action = "navigate" <=> (IsContainer(Deref(cell.value)) \/ IsArray(Deref(cell.value)))

\* C21: single-select surfaces information only.  A click on a table cell,
\* the expiry of the click timer and a double click on a cell that is not
\* marked 'navigate' leave the current frame, the back stack and the render
\* cache unchanged.
SingleSelectKeepsFrame ==
    [][/\ \A item \in ShownCells :
             _on_table_item_clicked(item) => UNCHANGED <<current_data, current_path, data_stack, display_cache>>
       /\ _handle_single_click => UNCHANGED <<current_data, current_path, data_stack, display_cache>>
       /\ \A item \in ShownCells :
             (_on_table_item_double_clicked(item) /\ item.action # "navigate")
                 => UNCHANGED <<current_data, current_path, data_stack, display_cache>>]_vars

\* a cell marked 'value' of the table on display was clicked and the timer
\* has ended
ValueCellClicked ==
    /\ last_clicked_item.action = "value"
    /\ last_clicked_item \in ShownCells
    /\ ~click_timer

\* C22 (as stated): one bad child never aborts the build of the tree: once a
\* mapping document is in the tree, the build has not raised and every child
\* of the document has its item below the root
EveryChildEmitted ==
    (tree_data # NoneRef /\ Deref(tree_data).t = "dict") =>
        /\ ~exc
        /\ \A i \in 1..Len(Deref(tree_data).items) :
              \E k \in 1..Len(tree[1].children) :
                 tree[1].children[k].path = ChildPath(Deref(tree_data), <<>>, i)

RECURSIVE Nodes(_, _, _)
\* the items of the subtree of `item`, the item of the value v at level
\* `level` below the root item: each with its value and its level (the
\* "... more items" item stands for no value)
Nodes(item, v, level) ==
    {[item |-> item, v |-> v, level |-> level]}
        \cup UNION {Nodes(item.children[i],
                          IF item.children[i].path = <<>> THEN PyNone ELSE v.items[i],
                          level + 1) : i \in 1..Len(item.children)}

\* the items of the tree on display
TreeNodes ==
    IF IsNone(tree_data) \/ tree = <<>> THEN {} ELSE Nodes(tree[1], Deref(tree_data), 0)

\* the tree items above the last level whose value is a non-empty mapping or
\* sequence that has a text
ContainerNodes ==
    {n \in TreeNodes : /\ n.level \in 1..(MaxDepth - 1)
                       /\ IsContainer(n.v) /\ Len(n.v.items) > 0 /\ ~StrRaises(n.v)}

Placeholders(v) ==
    IF StrRaises(v) THEN {RawPlaceholder(v), TextPlaceholder(v, v)} ELSE {}

\* C24 (as stated): a frame on display has all of its raw, text and table
\* tabs, and no error placeholder text is stored in the render cache
RenderFailureIsolated ==
    ~IsNone(current_data) =>
        /\ Len(data_display) = 3
        /\ \A k \in DOMAIN display_cache :
              display_cache[k] \notin Placeholders(Deref(current_data))

\* C25 (as stated): of a mapping or sequence of more than 100 entries on
\* display, the table shows at most the first 100 entries and the text view
\* of a mapping does not show the entry after the first 100
CollectionTruncatedByCount ==
    LET v == Deref(current_data)
    IN  (~IsNone(current_data) /\ IsContainer(v) /\ Len(v.items) > MaxElements) =>
            /\ \A i \in 1..Len(data_display) :
                  data_display[i].kind = "table" => Len(data_display[i].cells) <= MaxElements
            /\ v.t = "dict" =>
                  \A text \in TextViews : ~IsSubSeq(DictLine(v, MaxElements + 1), text)

\* the texts on display under the tab title `title`
ViewsTitled(title) ==
    {data_display[i].text : i \in {k \in 1..Len(data_display) : data_display[k].title = title}}

InFlight == Running \cup {events[i].tid : i \in 1..Len(events)}

\* C27 (as stated): the progress bar is visible exactly while a load is in
\* flight, and while the most recently requested load is in flight the
\* status is still that of loading
LoadIndicatorConsistent ==
    /\ progress_bar <=> (InFlight # {})
    /\ load_thread \in InFlight => status_label[1] = "loading"

ViewsOfCurrentFrame ==
    LET v == Deref(current_data)
    IN  IF IsNone(current_data) THEN data_display = <<>>
        ELSE /\ path_label = (IF Len(current_path) > 0 THEN current_path ELSE RootText)
             /\ ViewsTitled("Raw Data") = {_get_raw_text_safe(v)}
             /\ ViewsTitled("Text View") = {_format_data_as_text_safe(v)}
             /\ \E i \in 1..Len(data_display) :
                   data_display[i] = TableView(current_data, current_path).tab

\* the position of the path q in the list (0 when it is not in it)
PositionIn(list, q) ==
    IF \E i \in 1..Len(list) : list[i] = q
    THEN CHOOSE i \in 1..Len(list) : list[i] = q /\ \A j \in 1..(i - 1) : list[j] # q
    ELSE 0

\* C30: a successful load leaves a list of recent files without duplicates
\* and of at most 10 entries, with the loaded path at index 0; the paths after
\* it are paths of the old list in their old order, and the only path of the
\* old list that may be missing is its last one, when the list was full and
\* the loaded path was not in it
RecentFilesKept ==
    [][on_data_loaded =>
         LET loaded == Head(events).out.metadata.file_path
             old == recent_files
             new == recent_files'
         IN  /\ \A i, j \in 1..Len(new) : new[i] = new[j] => i = j
             /\ Len(new) <= 10
             /\ Len(new) > 0 /\ new[1] = loaded
             /\ \A i \in 2..Len(new) : PositionIn(old, new[i]) > 0
             /\ \A i, j \in 2..Len(new) :
                   i < j => PositionIn(old, new[i]) < PositionIn(old, new[j])
             /\ \A k \in 1..Len(old) :
                   (old[k] # loaded /\ PositionIn(new, old[k]) = 0)
                       => (k = 10 /\ Len(old) = 10 /\ PositionIn(old, loaded) = 0)]_vars

\* a file was loaded that the full list did not hold: the last saved path
\* is gone
EleventhDropped ==
    /\ Len(recent_files) = 10
    /\ recent_files[1] = PathN1
    /\ recent_files[10] = SavedRecent[9]

====
